---- MODULE Spec2Model ----
(***************************************************************************)
(* Session controller of the AI colour detector (src/App.tsx).            *)
(*                                                                         *)
(* The component's React state, its refs, the browser objects it drives   *)
(* (media streams, interval timers) and the asynchronous operations in    *)
(* flight (getUserMedia / video.play() of a startCamera invocation,       *)
(* detectColorFromImage calls) are the state.  One action is one task of  *)
(* the browser's event loop: a click handler together with the render and *)
(* the effects React flushes synchronously for it, a timer tick, or the   *)
(* continuation of an awaited promise.                                    *)
(*                                                                         *)
(* Closures: the lifecycle effect calls the startCamera of the render in  *)
(* which it ran, and setInterval keeps the captureAndDetect of that same  *)
(* render.  The values of isLoading and detectedColor that such a closure *)
(* reads are therefore the ones of that render; they are carried in the   *)
(* records of the pending invocation and of the timer (capLoading,        *)
(* capColor).                                                             *)
(***************************************************************************)
EXTENDS Integers, FiniteSets, Sequences, Bags, TLC

\* ------------------------------------------------------------------ bounds
\* startCamera invocations that reach getUserMedia in one behaviour
MaxActivations == 2
\* detectColorFromImage calls in flight at once
MaxCalls == 2
\* characters of a response text of the vision service
MaxLen == 3

\* ------------------------------------------------------- program constants
Statuses == {"Ready", "Initializing", "Detecting", "Error", "Stopped"}
FacingModes == {"user", "environment"}

NoError == "null"
CameraDeniedMsg == "Camera access denied. Please allow camera permissions in your browser settings."
CameraUnsupportedMsg == "Camera not supported by this browser."
RetryMsg == "Could not detect color. Please try again."

\* labels detectColorFromImage can resolve with ("" : the response was empty)
Labels == {"", "Blue", "blue", "Red"}

\* String.prototype.toLowerCase on the labels
toLowerCase(s) == IF s = "Blue" THEN "blue" ELSE IF s = "Red" THEN "red" ELSE s

\* variant of speak() that leaves the text out of the URL
speakWithoutText(text) == <<"translate_tts", "">>

\* the URL speak() builds for a label; the label is the only varying part
speak(text) == <<"translate_tts", text>>
NoAudio == <<>>

\* ------------------------------------------- detectColorFromImage (service)
\* Texts are sequences of characters.  The characters a response is drawn
\* from: letters, a blank, two characters of the sanitising class and two
\* punctuation characters outside it.
Alphabet == {"B", "e", " ", ".", "!", "'", "?"}
WhiteSpace == {" "}

\* the character class of the regular expression at line 40 (the grave
\* accent is written "grave")
SanitizedChars ==
    {".", ",", "/", "#", "!", "$", "%", "^", "&", "*", ";", ":", "{", "}", "=",
     "-", "_", "grave", "~", "(", ")"}

RECURSIVE trimStart(_)
trimStart(s) == IF s # <<>> /\ Head(s) \in WhiteSpace THEN trimStart(Tail(s)) ELSE s

RECURSIVE trimEnd(_)
trimEnd(s) ==
    IF s # <<>> /\ s[Len(s)] \in WhiteSpace THEN trimEnd(SubSeq(s, 1, Len(s) - 1)) ELSE s

\* String.prototype.trim (line 38)
trim(s) == trimEnd(trimStart(s))

InSanitizedClass(c) == c \in SanitizedChars

\* colorText.replace(/[...]/g, "") (line 40)
sanitize(s) == SelectSeq(s, LAMBDA c : ~InSanitizedClass(c))

FailedMsg == "Failed to get response from AI model."

\* what the remote call does: it throws, it returns a response without text,
\* or it returns a response with a text
Texts == UNION {[1..n -> Alphabet] : n \in 0..MaxLen}
Responses ==
    {[kind |-> "throws", text |-> <<>>], [kind |-> "noText", text |-> <<>>]}
    \cup {[kind |-> "text", text |-> s] : s \in Texts}

\* detectColorFromImage (lines 16-46): generateContent throwing, and trim() of
\* an undefined text, end in the catch block, which throws the one error
detectColorFromImage(r) ==
    IF r.kind = "text"
    THEN [ok |-> TRUE, label |-> sanitize(trim(r.text)), error |-> ""]
    ELSE [ok |-> FALSE, label |-> <<>>, error |-> FailedMsg]

NoResponse == [kind |-> "none", text |-> <<>>]
NoOutcome == [ok |-> FALSE, label |-> <<>>, error |-> "pending"]

\* canvas.getContext('2d') of the hidden canvas
HasContext == TRUE

VARIABLES
    \* React state (lines 9-15)
    isCameraOn, facingMode, status, detectedColor, isLoading, error, audioUrl,
    \* refs (lines 18-20): 0 is null
    srcObject, detectionIntervalRef,
    \* browser: media streams with live tracks, active interval timers
    liveStreams, timers,
    \* browser: navigator.mediaDevices.getUserMedia exists
    hasGetUserMedia,
    \* startCamera invocations suspended at an await
    pendingCam,
    \* detectColorFromImage calls in flight: a bag of records, one per call,
    \* with the interval that started it and its closure's detectedColor
    calls,
    \* dependencies the lifecycle effect last ran with (<<>> before mount)
    effectDeps,
    \* number of startCamera invocations that called getUserMedia
    nextId,
    \* history: the last task; what caused the last run of startCamera
    \* ("toggle", "switch"), or "failed" once camera access failed after it
    lastOp, activation,
    \* one detectColorFromImage call taken by itself: what the remote call
    \* does, and what the function returned or threw
    response, outcome

vars == <<isCameraOn, facingMode, status, detectedColor, isLoading, error, audioUrl,
          srcObject, detectionIntervalRef, liveStreams, timers, hasGetUserMedia,
          pendingCam, calls, effectDeps, nextId, lastOp, activation,
          response, outcome>>

\* ---------------------------------------------------------------- helpers
Deps == <<isCameraOn, facingMode>>
EffectPending == effectDeps # Deps

InFlight == BagToSet(calls)
NumInFlight == BagCardinality(calls)

\* stopCameraStream: the tracks of the attached stream are stopped and the
\* stream is detached; the interval held in the ref is cleared
StoppedStreams == liveStreams \ {srcObject}
ClearedTimers == {t \in timers : t.id # detectionIntervalRef}

AppInit ==
    /\ isCameraOn = FALSE
    /\ facingMode = "environment"
    /\ status = "Ready"
    /\ detectedColor = ""
    /\ isLoading = FALSE
    /\ error = NoError
    /\ audioUrl = NoAudio
    /\ srcObject = 0
    /\ detectionIntervalRef = 0
    /\ liveStreams = {}
    /\ timers = {}
    /\ hasGetUserMedia \in BOOLEAN
    /\ pendingCam = {}
    /\ calls = EmptyBag
    /\ effectDeps = <<>>
    /\ nextId = 0
    /\ lastOp = "init"
    /\ activation = "none"

Init ==
    /\ AppInit
    /\ response = NoResponse
    /\ outcome = NoOutcome

\* ----------------------------------------------------------------- effects
\* startCamera of the render with facing mode fm, whose captureAndDetect
\* closes over isLoading = capL and detectedColor = capC (lines 93-120), up to
\* its first await.  Without getUserMedia the else branch runs at once.
startCamera(fm, capL, capC, cause) ==
    /\ srcObject' = 0
    /\ liveStreams' = StoppedStreams
    /\ detectionIntervalRef' = 0
    /\ timers' = ClearedTimers
    /\ IF hasGetUserMedia
       THEN /\ nextId < MaxActivations
            /\ status' = "Initializing"
            /\ error' = NoError
            /\ isCameraOn' = TRUE
            /\ nextId' = nextId + 1
            /\ pendingCam' = pendingCam \cup
                 {[id |-> nextId + 1, facing |-> fm, capLoading |-> capL,
                   capColor |-> capC, stage |-> "gum"]}
            /\ activation' = cause
       ELSE /\ status' = "Error"
            /\ error' = CameraUnsupportedMsg
            /\ isCameraOn' = FALSE
            /\ activation' = "failed"
            /\ UNCHANGED <<nextId, pendingCam>>

\* variant of the else branch that goes back to the initial label
stopAndMarkReady ==
    /\ srcObject' = 0
    /\ liveStreams' = StoppedStreams
    /\ detectionIntervalRef' = 0
    /\ timers' = ClearedTimers
    /\ status' = "Ready"
    /\ UNCHANGED <<error, nextId, pendingCam, activation>>

\* the else branch of the lifecycle effect (lines 125-128)
stopAndMarkStopped ==
    /\ srcObject' = 0
    /\ liveStreams' = StoppedStreams
    /\ detectionIntervalRef' = 0
    /\ timers' = ClearedTimers
    /\ status' = "Stopped"
    /\ UNCHANGED <<error, nextId, pendingCam, activation>>

\* The lifecycle effect (lines 122-134) running by itself: after the first
\* render (mount) and after a render caused by setIsCameraOn(false) in a
\* promise continuation.  Its cleanup and its body both call stopCameraStream.
RunEffect ==
    /\ EffectPending
    /\ ~isCameraOn
    /\ stopAndMarkStopped
    /\ effectDeps' = Deps
    /\ lastOp' = "effect"
    /\ UNCHANGED <<isCameraOn, facingMode, detectedColor, isLoading, audioUrl,
                   hasGetUserMedia, calls,
                   response, outcome>>

\* ----------------------------------------------------------- click handlers
\* in-flight calls as they are once the camera was toggled (history only)
MarkedStale ==
    [s \in {[r EXCEPT !.stale = TRUE] : r \in InFlight} |->
        CopiesIn(s, calls) + CopiesIn([s EXCEPT !.stale = FALSE], calls)]

\* handleToggleCamera (lines 136-139), the render it causes and the lifecycle
\* effect of that render (cleanup, then body).  The render has the flipped
\* isCameraOn and detectedColor = "".
handleToggleCamera ==
    /\ ~EffectPending
    /\ detectedColor' = ""
    /\ IF isCameraOn
       THEN /\ isCameraOn' = FALSE
            /\ stopAndMarkStopped
            /\ calls' = MarkedStale
            /\ effectDeps' = <<FALSE, facingMode>>
            /\ lastOp' = "toggleOff"
       ELSE /\ startCamera(facingMode, isLoading, "", "toggle")
            /\ effectDeps' = <<TRUE, facingMode>>
            /\ lastOp' = "toggleOn"
            /\ UNCHANGED calls
    /\ UNCHANGED <<facingMode, isLoading, audioUrl, hasGetUserMedia,
                   response, outcome>>

\* variant of the updater that uses the name "front" for the other camera
FlipFront(fm) == IF fm = "user" THEN "environment" ELSE "front"

\* the updater of setFacingMode (line 143)
Flip(fm) == IF fm = "user" THEN "environment" ELSE "user"

\* handleSwitchCamera (lines 141-145) with the camera on, the render and the
\* lifecycle effect of that render: cleanup of the previous run, then
\* startCamera of the new render.
handleSwitchCamera ==
    /\ ~EffectPending
    /\ isCameraOn
    /\ facingMode' = Flip(facingMode)
    /\ startCamera(Flip(facingMode), isLoading, detectedColor, "switch")
    /\ effectDeps' = <<TRUE, Flip(facingMode)>>
    /\ lastOp' = "switch"
    /\ UNCHANGED <<detectedColor, isLoading, audioUrl, hasGetUserMedia, calls,
                   response, outcome>>

\* variant of the handler without the isCameraOn test
handleSwitchCameraOffFlips ==
    /\ ~EffectPending
    /\ ~isCameraOn
    /\ facingMode' = Flip(facingMode)
    /\ lastOp' = "switchIgnored"
    /\ UNCHANGED <<isCameraOn, status, detectedColor, isLoading, error,
                   audioUrl, srcObject, detectionIntervalRef, liveStreams, timers,
                   hasGetUserMedia, pendingCam, calls, effectDeps, nextId,
                   activation,
                   response, outcome>>

\* handleSwitchCamera with the camera off: the handler does nothing
handleSwitchCameraOff ==
    /\ ~EffectPending
    /\ ~isCameraOn
    /\ lastOp' = "switchIgnored"
    /\ UNCHANGED <<isCameraOn, facingMode, status, detectedColor, isLoading, error,
                   audioUrl, srcObject, detectionIntervalRef, liveStreams, timers,
                   hasGetUserMedia, pendingCam, calls, effectDeps, nextId,
                   activation,
                   response, outcome>>

\* ------------------------------------------- continuations of startCamera
\* getUserMedia resolved with a new stream: it is attached to the video
\* element and play() is awaited (lines 100-105)
GetUserMediaResolve(p) ==
    /\ p \in pendingCam /\ p.stage = "gum"
    /\ srcObject' = p.id
    /\ liveStreams' = liveStreams \cup {p.id}
    /\ pendingCam' = (pendingCam \ {p}) \cup {[p EXCEPT !.stage = "play"]}
    /\ lastOp' = "gumResolve"
    /\ UNCHANGED <<isCameraOn, facingMode, status, detectedColor, isLoading, error,
                   audioUrl, detectionIntervalRef, timers, hasGetUserMedia, calls,
                   effectDeps, nextId, activation,
                   response, outcome>>

\* the catch block of startCamera (lines 109-114)
cameraFailed(p) ==
    /\ error' = CameraDeniedMsg
    /\ status' = "Error"
    /\ isCameraOn' = FALSE
    /\ activation' = "failed"
    /\ pendingCam' = pendingCam \ {p}
    /\ UNCHANGED <<facingMode, detectedColor, isLoading, audioUrl, srcObject,
                   detectionIntervalRef, liveStreams, timers, hasGetUserMedia, calls,
                   effectDeps, nextId,
                   response, outcome>>

\* getUserMedia rejected (permission denied, no such device)
GetUserMediaReject(p) ==
    /\ p \in pendingCam /\ p.stage = "gum"
    /\ cameraFailed(p)
    /\ lastOp' = "gumReject"

\* video.play() resolved: the stream this invocation attached is still the
\* one loaded (a later load rejects the pending play promise).  Lines 106-107.
PlayResolve(p) ==
    /\ p \in pendingCam /\ p.stage = "play"
    /\ srcObject = p.id
    /\ status' = "Detecting"
    /\ detectionIntervalRef' = p.id
    /\ timers' = timers \cup
         {[id |-> p.id, capLoading |-> p.capLoading, capColor |-> p.capColor]}
    /\ pendingCam' = pendingCam \ {p}
    /\ lastOp' = "playResolve"
    /\ UNCHANGED <<isCameraOn, facingMode, detectedColor, isLoading, error, audioUrl,
                   srcObject, liveStreams, hasGetUserMedia, calls, effectDeps, nextId,
                   activation,
                   response, outcome>>

\* video.play() rejected (aborted by a new load, or not allowed)
PlayReject(p) ==
    /\ p \in pendingCam /\ p.stage = "play"
    /\ cameraFailed(p)
    /\ lastOp' = "playReject"

\* ------------------------------------------------------- captureAndDetect
\* A tick of interval t runs the captureAndDetect closure the interval was
\* created with (lines 60-76): the guard reads the closure's isLoading.
StartsCall(t) == ~t.capLoading /\ HasContext

TickSkipped(t) ==
    /\ t \in timers
    /\ t.capLoading
    /\ lastOp' = "tickSkipped"
    /\ UNCHANGED <<isCameraOn, facingMode, status, detectedColor, isLoading, error,
                   audioUrl, srcObject, detectionIntervalRef, liveStreams, timers,
                   hasGetUserMedia, pendingCam, calls, effectDeps, nextId,
                   activation,
                   response, outcome>>

Tick(t) ==
    /\ t \in timers
    /\ StartsCall(t)
    /\ NumInFlight < MaxCalls
    /\ calls' = calls (+) SetToBag({[timer |-> t.id, capColor |-> t.capColor,
                                      stale |-> FALSE]})
    /\ isLoading' = TRUE
    /\ status' = "Detecting"
    /\ lastOp' = "tick"
    /\ UNCHANGED <<isCameraOn, facingMode, detectedColor, error, audioUrl, srcObject,
                   detectionIntervalRef, liveStreams, timers, hasGetUserMedia,
                   pendingCam, effectDeps, nextId, activation,
                   response, outcome>>

\* the label replaces the displayed one when it is non-empty and differs,
\* ignoring case, from the detectedColor of the closure (line 77)
Replaces(color, capColor) == color # "" /\ toLowerCase(color) # toLowerCase(capColor)

\* variant that drops the result of a call started before the last toggle
ClassifyResolveDropStale(k, color) ==
    /\ k \in InFlight
    /\ detectedColor' = IF Replaces(color, k.capColor) /\ ~k.stale
                        THEN color ELSE detectedColor
    /\ audioUrl' = IF detectedColor' # detectedColor /\ detectedColor' # ""
                   THEN speak(detectedColor') ELSE audioUrl
    /\ error' = IF k.stale THEN error ELSE NoError
    /\ isLoading' = FALSE
    /\ calls' = calls (-) SetToBag({k})
    /\ lastOp' = IF k.stale THEN "resolveStale" ELSE "resolve"
    /\ UNCHANGED <<isCameraOn, facingMode, status, srcObject, detectionIntervalRef,
                   liveStreams, timers, hasGetUserMedia, pendingCam, effectDeps,
                   nextId, activation,
                   response, outcome>>

\* detectColorFromImage resolved with color (lines 76-80, 85-87), and the
\* effect on detectedColor (lines 40-45) of the render that follows
ClassifyResolve(k, color) ==
    /\ k \in InFlight
    /\ detectedColor' = IF Replaces(color, k.capColor) THEN color ELSE detectedColor
    /\ audioUrl' = IF detectedColor' # detectedColor /\ detectedColor' # ""
                   THEN speak(detectedColor') ELSE audioUrl
    /\ error' = NoError
    /\ isLoading' = FALSE
    /\ calls' = calls (-) SetToBag({k})
    /\ lastOp' = IF k.stale THEN "resolveStale" ELSE "resolve"
    /\ UNCHANGED <<isCameraOn, facingMode, status, srcObject, detectionIntervalRef,
                   liveStreams, timers, hasGetUserMedia, pendingCam, effectDeps,
                   nextId, activation,
                   response, outcome>>

\* variant whose catch block also cancels the interval
ClassifyRejectStopsTimer(k) ==
    /\ k \in InFlight
    /\ error' = RetryMsg
    /\ status' = "Error"
    /\ isLoading' = FALSE
    /\ calls' = calls (-) SetToBag({k})
    /\ timers' = ClearedTimers
    /\ detectionIntervalRef' = 0
    /\ lastOp' = IF k.stale THEN "rejectStale" ELSE "reject"
    /\ UNCHANGED <<isCameraOn, facingMode, detectedColor, audioUrl, srcObject,
                   liveStreams, hasGetUserMedia, pendingCam, effectDeps, nextId,
                   activation,
                   response, outcome>>

\* detectColorFromImage rejected (lines 81-87)
ClassifyReject(k) ==
    /\ k \in InFlight
    /\ error' = RetryMsg
    /\ status' = "Error"
    /\ isLoading' = FALSE
    /\ calls' = calls (-) SetToBag({k})
    /\ lastOp' = IF k.stale THEN "rejectStale" ELSE "reject"
    /\ UNCHANGED <<isCameraOn, facingMode, detectedColor, audioUrl, srcObject,
                   detectionIntervalRef, liveStreams, timers, hasGetUserMedia,
                   pendingCam, effectDeps, nextId, activation,
                   response, outcome>>

\* the effect on audioUrl (lines 32-38) runs in the render that follows this
\* step: the audio element loads and plays the new source
PlaysAudio == audioUrl' # audioUrl /\ audioUrl' # NoAudio

Next ==
    \/ RunEffect
    \/ handleToggleCamera
    \/ handleSwitchCamera
    \/ handleSwitchCameraOff
    \/ \E p \in pendingCam : GetUserMediaResolve(p)
    \/ \E p \in pendingCam : GetUserMediaReject(p)
    \/ \E p \in pendingCam : PlayResolve(p)
    \/ \E p \in pendingCam : PlayReject(p)
    \/ \E t \in timers : TickSkipped(t)
    \/ \E t \in timers : Tick(t)
    \/ \E k \in InFlight, color \in Labels : ClassifyResolve(k, color)
    \/ \E k \in InFlight : ClassifyReject(k)

Spec == Init /\ [][Next]_vars

\* ------------------------------------- detectColorFromImage taken by itself
appVars == <<isCameraOn, facingMode, status, detectedColor, isLoading, error, audioUrl,
             srcObject, detectionIntervalRef, liveStreams, timers, hasGetUserMedia,
             pendingCam, calls, effectDeps, nextId, lastOp, activation>>

InitDetect ==
    /\ AppInit
    /\ response \in Responses
    /\ outcome = NoOutcome

\* the call returns the sanitised text
DetectReturns ==
    /\ outcome = NoOutcome
    /\ response.kind = "text"
    /\ outcome' = detectColorFromImage(response)
    /\ UNCHANGED <<appVars, response>>

\* the call throws the classification error
DetectThrows ==
    /\ outcome = NoOutcome
    /\ response.kind # "text"
    /\ outcome' = detectColorFromImage(response)
    /\ UNCHANGED <<appVars, response>>

NextDetect == DetectReturns \/ DetectThrows

SpecDetect == InitDetect /\ [][NextDetect]_vars

TypeOK ==
    /\ isCameraOn \in BOOLEAN
    /\ facingMode \in FacingModes
    /\ status \in Statuses
    /\ detectedColor \in Labels
    /\ isLoading \in BOOLEAN
    /\ srcObject \in 0..MaxActivations
    /\ detectionIntervalRef \in 0..MaxActivations
    /\ liveStreams \subseteq 1..MaxActivations
    /\ nextId \in 0..MaxActivations

\* ======================================================================
\* Claims
\* ======================================================================

\* C1: at most one detectColorFromImage call is in flight at any time: a tick
\* that fires while a call has not resolved starts no new call.
C1_AtMostOneCallInFlight == NumInFlight <= 1

\* C2: once the camera was toggled off while a classification call was in
\* flight and the effect of that change has run, no capture timer is active
\* while the camera stays off, neither while the call is still in flight nor
\* right after it resolved or rejected.
C2_NoTimerAfterDeactivation ==
    ( /\ ~isCameraOn
      /\ ~EffectPending
      /\ \/ \E k \in InFlight : k.stale
         \/ lastOp \in {"resolveStale", "rejectStale"} )
    => timers = {}

\* C3: at the first activation the status is Ready and becomes Initializing,
\* and while that first activation is the only one and the camera stays on,
\* the next status after Initializing, camera access not failing, is
\* Detecting.
C3_ReadyInitializingDetecting ==
    [][ /\ (nextId = 0 /\ nextId' = 1)
           => (status = "Ready" /\ status' = "Initializing")
        /\ ( /\ nextId = 1 /\ nextId' = 1 /\ isCameraOn /\ isCameraOn'
             /\ status = "Initializing" /\ status' # status )
           => status' = "Detecting" ]_vars

\* C4: after camera access failed and the effects of the failure have run,
\* until the next run of startCamera: the status is Error, the fixed message
\* is set, the toggle is off, no stream is attached, no timer is active.
C4_CameraFailureEndsInError ==
    (activation = "failed" /\ ~EffectPending)
    => /\ status = "Error"
       /\ error \in {CameraDeniedMsg, CameraUnsupportedMsg}
       /\ ~isCameraOn
       /\ srcObject = 0
       /\ timers = {}

\* the edges of the state machine as the specification states them
SpecEdges ==
    { <<"Ready", "Initializing">>, <<"Initializing", "Detecting">>,
      <<"Detecting", "Error">>, <<"Detecting", "Stopped">>,
      <<"Error", "Initializing">>, <<"Stopped", "Initializing">> }

Settled == {"Initializing", "Detecting", "Error", "Stopped"}
CodeEdges ==
    {<<"Ready", "Stopped">>} \cup {e \in Settled \X Settled : e[1] # e[2]}

C6_SwitchReleasesPrevious ==
    /\ [](activation = "switch" =>
            /\ liveStreams \subseteq {nextId}
            /\ \A t \in timers : t.id = nextId)
    /\ [][lastOp' = "switch" /\ nextId' # nextId =>
            \E p \in pendingCam' \ pendingCam :
                p.id = nextId' /\ p.stage = "gum" /\ p.facing = Flip(facingMode)]_vars

\* C7: a completed call of the current session (started by the last tick of
\* the current interval with no other call in flight) whose label equals the
\* displayed one ignoring case leaves the displayed label; one whose non-empty
\* label differs ignoring case replaces it.
C7_ReplaceIffDifferent ==
    [][\A k \in InFlight, color \in Labels :
         ( /\ ClassifyResolve(k, color)
           /\ NumInFlight = 1 /\ lastOp = "tick"
           /\ ~k.stale
           /\ k.timer = detectionIntervalRef )
         => /\ toLowerCase(color) = toLowerCase(detectedColor)
                 => detectedColor' = detectedColor
            /\ (color # "" /\ toLowerCase(color) # toLowerCase(detectedColor))
                 => detectedColor' = color ]_vars

\* C8: a rejected detectColorFromImage call sets the status Error and the
\* retry message, clears the loading flag and leaves the timers as they
\* are; the interval that started the call, while active, passes the guard
\* of captureAndDetect on its next tick.
C8_FailureKeepsTimer ==
    [][\A k \in InFlight :
         ClassifyReject(k) =>
            /\ status' = "Error"
            /\ error' = RetryMsg
            /\ ~isLoading'
            /\ timers' = timers
            /\ detectionIntervalRef' = detectionIntervalRef
            /\ \A t \in timers' : t.id = k.timer => StartsCall(t) ]_vars

\* a call of the running session has just failed and its interval is active
C8_Witness ==
    /\ lastOp = "reject"
    /\ isCameraOn
    /\ status = "Error" /\ error = RetryMsg /\ ~isLoading
    /\ InFlight = {}
    /\ \E t \in timers : t.id = detectionIntervalRef /\ StartsCall(t)

\* C9: once nothing asynchronous is pending, the only stream that can be live
\* and the only timer that can be active are those of the last run of
\* startCamera, and none at all when the camera is off.
C9_NothingLeftBehind ==
    (pendingCam = {} /\ InFlight = {} /\ ~EffectPending)
    => /\ liveStreams \subseteq (IF isCameraOn THEN {nextId} ELSE {})
       /\ \A t \in timers : isCameraOn /\ t.id = nextId

\* C10: the completion of a call that was in flight when the camera was
\* toggled off is applied like any other: a resolved label that differs from
\* the closure's detectedColor becomes the detected color and clears the
\* error; a rejection sets the retry message and the status Error.
C10_StaleCompletionApplied ==
    [][\A k \in InFlight :
         /\ \A color \in Labels :
              (ClassifyResolve(k, color) /\ k.stale)
              => /\ Replaces(color, k.capColor) => detectedColor' = color
                 /\ error' = NoError
         /\ (ClassifyReject(k) /\ k.stale)
              => (status' = "Error" /\ error' = RetryMsg) ]_vars

\* the camera is off after one activation, nothing can start a call any more,
\* and the label handleToggleCamera had cleared is set again by a call that
\* was in flight at the toggle
C10_Witness ==
    /\ lastOp = "resolveStale"
    /\ ~isCameraOn /\ ~EffectPending
    /\ nextId = 1 /\ pendingCam = {} /\ timers = {}
    /\ status = "Stopped"
    /\ detectedColor # ""

\* ASCII punctuation (the characters a reader calls punctuation)
Punctuation ==
    SanitizedChars \cup {"?", "'", "\"", "@", "+", "[", "]", "<", ">", "|", "\\"}
HasPunctuation(s) == \E i \in 1..Len(s) : s[i] \in Punctuation
IsSingleWord(s) == s # <<>> /\ \A i \in 1..Len(s) : s[i] \notin WhiteSpace

Letters == {"B", "e"}
HasLetter(s) == \E i \in 1..Len(s) : s[i] \in Letters

\* C11: for a response text that contains punctuation (here: one word, with
\* a letter, no blank in it), the label returned by detectColorFromImage is
\* a single word and holds no punctuation character.
C11_LabelIsCleanWord ==
    ( /\ response.kind = "text"
      /\ HasPunctuation(response.text)
      /\ HasLetter(response.text)
      /\ IsSingleWord(response.text)
      /\ outcome.ok )
    => (IsSingleWord(outcome.label) /\ ~HasPunctuation(outcome.label))

\* a response the service gave without a usable text: it threw, the text is
\* missing, or the text is empty
Unusable(r) == r.kind # "text" \/ r.text = <<>>

\* C12: detectColorFromImage throws the one classification error for every
\* unusable response, and never returns an empty label as a success.
C12_UnusableResponseFails ==
    outcome # NoOutcome
    => /\ Unusable(response) => (~outcome.ok /\ outcome.error = FailedMsg)
       /\ outcome.ok => outcome.label # <<>>

\* C13: a non-empty detected color always has its synthesis URL as the audio
\* URL, and the audio URL changes only in a step that changes the detected
\* color to a non-empty label, to the URL of that label.
C13_AudioUrlFollowsColor ==
    /\ [](detectedColor # "" => audioUrl = <<"translate_tts", detectedColor>>)
    /\ [][audioUrl' # audioUrl =>
            /\ detectedColor' # detectedColor
            /\ detectedColor' # ""
            /\ audioUrl' = <<"translate_tts", detectedColor'>>]_vars

\* a second label of a session replaced the first one and its URL
C13_Witness ==
    /\ lastOp = "resolve"
    /\ isCameraOn
    /\ detectedColor = "Red"
    /\ audioUrl = <<"translate_tts", "Red">>

\* C14: every change of the detected color to a non-empty label loads and
\* plays the announcement (here: a change made by the only call in flight,
\* started by the last tick of the interval of the running session).
C14_EveryChangeAnnounced ==
    [][( /\ detectedColor' # detectedColor /\ detectedColor' # ""
         /\ isCameraOn /\ lastOp = "tick" /\ NumInFlight = 1
         /\ \A k \in InFlight : ~k.stale /\ k.timer = detectionIntervalRef )
       => PlaysAudio]_vars

\* C15: the status is one of the five values and the facing mode one of the
\* two.
C15_StatusAndFacingMode ==
    /\ status \in {"Ready", "Initializing", "Detecting", "Error", "Stopped"}
    /\ facingMode \in {"user", "environment"}

\* the front camera was selected and a classification call of it failed
C15_Witness ==
    /\ facingMode = "user"
    /\ status = "Error"
    /\ isCameraOn

\* C16: while the camera is on, the interval of the session (the one held in
\* detectionIntervalRef) passes the guard of captureAndDetect, so that its
\* next tick starts a classification call.
C16_SessionTimerStartsCalls ==
    isCameraOn => \A t \in timers : t.id = detectionIntervalRef => StartsCall(t)

\* C17: at most one interval is active, and it is the one whose id
\* detectionIntervalRef holds.
C17_OneTimerHeldInRef ==
    /\ Cardinality(timers) <= 1
    /\ \A t \in timers : t.id = detectionIntervalRef

\* C18: with the toggle off and the effect of that change run, the status is
\* neither Initializing nor Detecting.
C18_OffMeansNotDetecting ==
    (~isCameraOn /\ ~EffectPending) => status \notin {"Initializing", "Detecting"}

\* C19: the facing mode changes only in a handleSwitchCamera task with the
\* camera on, to the other value, and such a task always changes it.
C19_FacingModeFrame ==
    [][ /\ facingMode' # facingMode =>
             /\ lastOp' = "switch"
             /\ isCameraOn
             /\ <<facingMode, facingMode'>> \in
                  {<<"user", "environment">>, <<"environment", "user">>}
        /\ lastOp' = "switch" => facingMode' # facingMode ]_vars

\* the camera is on with the front camera after a switch
C19_Witness ==
    /\ lastOp = "switch"
    /\ isCameraOn
    /\ facingMode = "user"

====
